---- MODULE Spec2Model ----
(***************************************************************************)
(* Model of src/parse_notes.py: the incremental scan of an Obsidian vault  *)
(* (parse_obsidian_vault), its metrics-only variant, the shared counters   *)
(* (update_metrics) and the metrics endpoint reading them.                 *)
(*                                                                         *)
(* Strings are sequences of one-character strings (<<".", "t">> is ".t"),  *)
(* so that prefixes, suffixes, joins and splits are computed.              *)
(* Instants are integers (clock ticks); a naive local datetime is the UTC  *)
(* instant plus the zone offset tz.                                        *)
(***************************************************************************)
EXTENDS Integers, Sequences, FiniteSets, TLC

\* ------------------------------------------------------------------ bounds

\* Largest value of the system clock (UTC ticks).
MaxClock == 2

\* Largest number of scan runs started in one behaviour.
MaxRuns == 2

\* Largest number of update_metrics calls in one behaviour of SpecMetrics.
MaxCalls == 2

\* Clock ticks per second: strftime('%Y%m%d_%H%M%S') has second resolution.
TicksPerSecond == 2

\* ------------------------------------------------------------ string helpers

RECURSIVE Join(_, _)
\* sep.join(parts)
Join(parts, sep) ==
    IF Len(parts) = 0 THEN <<>>
    ELSE IF Len(parts) = 1 THEN parts[1]
    ELSE parts[1] \o sep \o Join(Tail(parts), sep)

RECURSIVE SplitFrom(_, _, _)
\* s.split(c) for a one-character separator c; cur is the piece being read.
SplitFrom(s, c, cur) ==
    IF Len(s) = 0 THEN <<cur>>
    ELSE IF Head(s) = c THEN <<cur>> \o SplitFrom(Tail(s), c, <<>>)
    ELSE SplitFrom(Tail(s), c, Append(cur, Head(s)))

Split(s, c) == SplitFrom(s, c, <<>>)

RECURSIVE LStrip(_)
LStrip(s) == IF Len(s) > 0 /\ Head(s) = " " THEN LStrip(Tail(s)) ELSE s

RECURSIVE RStrip(_)
RStrip(s) ==
    IF Len(s) > 0 /\ s[Len(s)] = " " THEN RStrip(SubSeq(s, 1, Len(s) - 1)) ELSE s

\* str.strip()
Strip(s) == RStrip(LStrip(s))

\* [x.strip() for x in s.split(',') if x.strip()]
StrippedItems(s) ==
    LET raw == Split(s, ",")
        kept == SelectSeq(raw, LAMBDA x : Len(Strip(x)) > 0)
    IN  [i \in 1..Len(kept) |-> Strip(kept[i])]

\* part.startswith('.')
StartsWithDot(part) == Len(part) > 0 /\ part[1] = "."

\* The pattern "*.md" of rglob: the name ends with ".md".
MatchesMd(name) ==
    Len(name) >= 3 /\ SubSeq(name, Len(name) - 2, Len(name)) = <<".", "m", "d">>

\* Path.stem of a name with one suffix.
Stem(name) ==
    IF \E i \in 2..Len(name) : name[i] = "."
    THEN LET k == CHOOSE i \in 2..Len(name) :
                     name[i] = "." /\ \A j \in (i+1)..Len(name) : name[j] # "."
         IN  SubSeq(name, 1, k - 1)
    ELSE name

\* ------------------------------------------------------------- the file tree

Files == {"a.md", ".trash/note.md", "bad.md"}

\* Path components of each file, relative to the vault root.
RelParts(f) ==
    CASE f = "a.md"            -> << <<"a", ".", "m", "d">> >>
      [] f = ".trash/note.md"  -> << <<".", "t">>, <<"n", ".", "m", "d">> >>
      [] f = "bad.md"          -> << <<"b", ".", "m", "d">> >>

\* Whether open(..., encoding='utf-8').read() succeeds on the file.
Readable(f) == f # "bad.md"

\* len(content.split()) of a readable file.
WordCount(f) == IF f = "a.md" THEN 2 ELSE 1

\* post.metadata['tags'] of the file (a list), or <<>> when the key is absent.
FrontTags(f) == IF f = "a.md" THEN << <<"x">> >> ELSE <<>>

\* re.findall(r'#(\w+)', content)
InlineTags(f) == IF f = "a.md" THEN << <<"y">>, <<"x">> >> ELSE << <<"z">> >>

\* re.findall(r'\[\[([^\]]+)\]\]', content)
WikiLinks(f) == IF f = "a.md" THEN << <<"L">>, <<"L">> >> ELSE <<>>

\* Vault roots the scan may be given.
VaultRoots == { << <<"v">> >>, << <<".", "s">>, <<"v">> >> }

\* ------------------------------------------------------- the shared counters

\* The value a defaultdict entry of vault_counts starts with.
NewVaultCounts == [notes |-> {}, tags |-> {}, words |-> 0, wikilinks |-> 0]

\* metrics_data as the module is loaded.
InitMetricsData ==
    [unique_notes |-> {}, unique_tags |-> {}, total_words |-> 0,
     vault_counts |-> <<>>]

\* The Prometheus registry as the module is loaded: no labelled child yet.
InitRegistry ==
    [note_total |-> <<>>, word_count_total |-> <<>>, tags_total |-> <<>>,
     notes_gauge |-> <<>>, words_gauge |-> <<>>, tags_gauge |-> <<>>,
     wikilinks_gauge |-> <<>>]

\* d[k] of a dictionary whose missing keys read as dflt.
Get(d, k, dflt) == IF k \in DOMAIN d THEN d[k] ELSE dflt

\* d[k] = v
Put(d, k, v) == [x \in (DOMAIN d) \cup {k} |-> IF x = k THEN v ELSE d[x]]

\* metrics_data['vault_counts'][vault]
VaultCounts(md, vault) == Get(md.vault_counts, vault, NewVaultCounts)

\* metrics_data['vault_counts'][vault][field] = v
SetVaultField(md, vault, field, v) ==
    [md EXCEPT !.vault_counts =
        Put(md.vault_counts, vault, [VaultCounts(md, vault) EXCEPT ![field] = v])]

\* counter.labels(vault=..., note_name=...).inc(n)
Inc(counter, key, n) == Put(counter, key, Get(counter, key, 0) + n)

\* update_metrics without its last statement: the wikilinks gauge is never set.
ProgWithoutLinkGauge(a) ==
    << [l |-> 78, i |-> 0], [l |-> 79, i |-> 0], [l |-> 80, i |-> 0],
       [l |-> 81, i |-> 0], [l |-> 82, i |-> 0] >>
    \o [k \in 1..(2 * Len(a.tags)) |->
          [l |-> IF k % 2 = 1 THEN 86 ELSE 87, i |-> (k + 1) \div 2]]
    \o << [l |-> 90, i |-> 0], [l |-> 91, i |-> 0] >>
    \o [k \in 1..Len(a.tags) |-> [l |-> 93, i |-> k]]
    \o << [l |-> 96, i |-> 0], [l |-> 97, i |-> 0], [l |-> 98, i |-> 0] >>

\* The statements of update_metrics, in program order, for the arguments a:
\* a label is the source line, i the index of the tag a loop body works on.
Prog(a) ==
    << [l |-> 78, i |-> 0], [l |-> 79, i |-> 0], [l |-> 80, i |-> 0],
       [l |-> 81, i |-> 0], [l |-> 82, i |-> 0] >>
    \o [k \in 1..(2 * Len(a.tags)) |->
          [l |-> IF k % 2 = 1 THEN 86 ELSE 87, i |-> (k + 1) \div 2]]
    \o << [l |-> 90, i |-> 0], [l |-> 91, i |-> 0] >>
    \o [k \in 1..Len(a.tags) |-> [l |-> 93, i |-> k]]
    \o << [l |-> 96, i |-> 0], [l |-> 97, i |-> 0], [l |-> 98, i |-> 0],
          [l |-> 99, i |-> 0] >>

\* The assignment in place of the addition: ... ['words'] = word_count
SetVaultWords(md, a) == SetVaultField(md, a.vault, "words", a.word_count)

\* Line 81: metrics_data['vault_counts'][vault]['words'] += word_count
AddVaultWords(md, a) ==
    SetVaultField(md, a.vault, "words", VaultCounts(md, a.vault).words + a.word_count)

\* The assignment in place of the addition: ... ['wikilinks'] = wikilinks_count
SetVaultLinks(md, a) == SetVaultField(md, a.vault, "wikilinks", a.wikilinks_count)

\* Line 82: metrics_data['vault_counts'][vault]['wikilinks'] += wikilinks_count
AddVaultLinks(md, a) ==
    SetVaultField(md, a.vault, "wikilinks",
                  VaultCounts(md, a.vault).wikilinks + a.wikilinks_count)

\* One statement st of update_metrics applied to S = [md, reg].
Exec(S, a, st) ==
    LET md == S.md
        reg == S.reg
        key == <<a.vault, a.note_name>>
        vc == VaultCounts(md, a.vault)
    IN  CASE st.l = 78 ->
               [S EXCEPT !.md.unique_notes = @ \cup {a.note_name}]
          [] st.l = 79 ->
               [S EXCEPT !.md.total_words = @ + a.word_count]
          [] st.l = 80 ->
               [S EXCEPT !.md =
                   SetVaultField(md, a.vault, "notes", vc.notes \cup {a.note_name})]
          [] st.l = 81 ->
               [S EXCEPT !.md = AddVaultWords(md, a)]
          [] st.l = 82 ->
               [S EXCEPT !.md = AddVaultLinks(md, a)]
          [] st.l = 86 ->
               [S EXCEPT !.md.unique_tags = @ \cup {a.tags[st.i]}]
          [] st.l = 87 ->
               [S EXCEPT !.md =
                   SetVaultField(md, a.vault, "tags", vc.tags \cup {a.tags[st.i]})]
          [] st.l = 90 ->
               [S EXCEPT !.reg.note_total = Inc(@, key, 1)]
          [] st.l = 91 ->
               [S EXCEPT !.reg.word_count_total = Inc(@, key, a.word_count)]
          [] st.l = 93 ->
               [S EXCEPT !.reg.tags_total = Inc(@, key, 1)]
          [] st.l = 96 ->
               [S EXCEPT !.reg.notes_gauge = Put(@, a.vault, Cardinality(vc.notes))]
          [] st.l = 97 ->
               [S EXCEPT !.reg.words_gauge = Put(@, a.vault, vc.words)]
          [] st.l = 98 ->
               [S EXCEPT !.reg.tags_gauge = Put(@, a.vault, Cardinality(vc.tags))]
          [] st.l = 99 ->
               [S EXCEPT !.reg.wikilinks_gauge = Put(@, a.vault, vc.wikilinks)]

RECURSIVE ExecFrom(_, _, _)
\* The statements k, k+1, ... of update_metrics run to the end.
ExecFrom(S, a, k) ==
    IF k > Len(Prog(a)) THEN S ELSE ExecFrom(Exec(S, a, Prog(a)[k]), a, k + 1)

\* update_metrics(note_name, vault, word_count, tags, wikilinks_count), whole.
UpdateMetrics(S, a) == ExecFrom(S, a, 1)

\* ------------------------------------------------------- per-file extraction

\* {**d1, **d2}
Merge(d1, d2) ==
    [k \in (DOMAIN d1) \cup (DOMAIN d2) |-> IF k \in DOMAIN d2 THEN d2[k] ELSE d1[k]]

\* datetime.isoformat(): the text of an instant, one token.
IsoFormat(t) == <<t>>

\* datetime.fromisoformat(s): {t} for the text of t, {} when it raises.
FromIsoFormat(s) == IF Len(s) = 1 THEN {s[1]} ELSE {}

\* datetime.fromtimestamp(t): the naive local datetime of a UTC instant.
FromTimestamp(t, offset) == t + offset

\* datetime.strftime('%Y%m%d_%H%M%S'): the instant cut to whole seconds.
StrfTime(t) == t \div TicksPerSecond

\* The order in which the directory walk yields the files of the tree.
WalkOrder == <<"a.md", ".trash/note.md", "bad.md">>

\* list(vault_path.rglob("*.md")): the files named *.md, in walk order.
RGlob(vp) == SelectSeq(WalkOrder, LAMBDA f : MatchesMd(RelParts(f)[Len(RelParts(f))]))

\* file_path.parts of a file found under the vault root vp.
Parts(vp, f) == vp \o RelParts(f)

\* The test of the name alone: part is file_path.name.
IsHiddenNameOnly(vp, f) == StartsWithDot(RelParts(f)[Len(RelParts(f))])

\* any(part.startswith('.') for part in file_path.parts)
IsHidden(vp, f) == \E i \in 1..Len(Parts(vp, f)) : StartsWithDot(Parts(vp, f)[i])

\* file_path.stem
NoteName(f) == Stem(RelParts(f)[Len(RelParts(f))])

\* str(file_path.relative_to(vault_path))
RelativePath(f) == Join(RelParts(f), <<"/">>)

\* vault_path.name
VaultName(vp) == vp[Len(vp)]

\* extract_basic_stats: the statistics, or {} when the read raises.
ExtractBasicStats(f) ==
    IF Readable(f) THEN [word_count |-> WordCount(f)] ELSE <<>>

\* What frontmatter.load and the two re.findall calls give for a readable
\* file: front is post.metadata.items(), each item a key with a list value
\* (list, items) or a scalar value (items holds its one text); inline and
\* links are the matches of the two patterns in post.content, in order.
Content(f) ==
    [front |-> IF Len(FrontTags(f)) > 0
               THEN << [key |-> "tags", list |-> TRUE, items |-> FrontTags(f)] >>
               ELSE <<>>,
     inline |-> InlineTags(f), links |-> WikiLinks(f), words |-> WordCount(f)]

\* f"frontmatter_{key}"
FmName(key) ==
    CASE key = "tags"     -> "frontmatter_tags"
      [] key = "priority" -> "frontmatter_priority"

\* str(value) of a scalar, ",".join(str(item) for item in value) of a list.
ValueText(item) == IF item.list THEN Join(item.items, <<",">>) ELSE item.items[1]

RECURSIVE FmFields(_)
\* Lines 139-145: one frontmatter_<key> field per front-matter item.
FmFields(front) ==
    IF Len(front) = 0 THEN <<>>
    ELSE Merge([n \in {FmName(Head(front).key)} |-> ValueText(Head(front))],
               FmFields(Tail(front)))

\* The tags list of the front matter, <<>> when there is no tags key or it is
\* not a list.
FrontTagItems(front) ==
    LET ts == SelectSeq(front, LAMBDA it : it.key = "tags" /\ it.list)
    IN  IF Len(ts) = 0 THEN <<>> ELSE ts[1].items

\* The tags field holding the inline tags after the front-matter tags.
FrontmatterFieldsUnion(d) ==
    LET all == FrontTagItems(d.front) \o d.inline
        tg == IF Len(all) > 0 THEN [tags |-> Join(all, <<",">>)] ELSE <<>>
        it == IF Len(d.inline) > 0
              THEN [inline_tags |-> Join(d.inline, <<",">>)] ELSE <<>>
        wl == IF Len(d.links) > 0
              THEN [wikilinks |-> Join(d.links, <<",">>)] ELSE <<>>
    IN  Merge(Merge(Merge(FmFields(d.front), tg), it), wl)

\* Lines 137-167: the string fields made of the content d of a file.
FrontmatterFields(d) ==
    LET ts == SelectSeq(d.front, LAMBDA it : it.key = "tags")
        tg == IF Len(ts) > 0 THEN [tags |-> ValueText(ts[1])] ELSE <<>>
        it == IF Len(d.inline) > 0
              THEN [inline_tags |-> Join(d.inline, <<",">>)] ELSE <<>>
        wl == IF Len(d.links) > 0
              THEN [wikilinks |-> Join(d.links, <<",">>)] ELSE <<>>
    IN  Merge(Merge(Merge(FmFields(d.front), tg), it), wl)

\* extract_frontmatter_metadata: the string fields, or {} when the read raises.
ExtractFrontmatterMetadata(f) ==
    IF ~Readable(f) THEN <<>> ELSE FrontmatterFields(Content(f))

\* get_file_timestamps: st_mtime read as a naive local datetime.
GetFileTimestamps(f, mt, offset) ==
    [modified_at |-> IsoFormat(FromTimestamp(mt[f], offset))]

\* all_metadata of lines 321-327 (233-239)
AllMetadata(f, mt, offset) ==
    Merge(Merge(Merge(ExtractBasicStats(f), ExtractFrontmatterMetadata(f)),
                GetFileTimestamps(f, mt, offset)),
          [file_path |-> RelativePath(f), note_name |-> NoteName(f)])

\* create_loki_labels
CreateLokiLabels(note_name, vault_name, metadata) ==
    LET base == [note_name |-> note_name, vault |-> vault_name,
                 job |-> <<"o", "b", "s">>]
        tg == IF "tags" \in DOMAIN metadata THEN [tags |-> metadata.tags] ELSE <<>>
        fm == [k \in {x \in DOMAIN metadata :
                          /\ x \in {"frontmatter_tags", "frontmatter_priority"}
                          /\ Len(metadata[x]) < 100} |-> metadata[k]]
    IN  Merge(Merge(base, tg), fm)

\* The tags list of lines 342-346 (242-246)
TagList(metadata) ==
    (IF "tags" \in DOMAIN metadata THEN StrippedItems(metadata.tags) ELSE <<>>)
    \o (IF "inline_tags" \in DOMAIN metadata
        THEN StrippedItems(metadata.inline_tags) ELSE <<>>)

\* wikilinks_count of lines 349-351 (249-251)
WikilinksCount(metadata) ==
    IF "wikilinks" \in DOMAIN metadata
    THEN Len(StrippedItems(metadata.wikilinks)) ELSE 0

\* The arguments of the update_metrics call of line 353 (253).
MetricsArgs(f, vp, metadata) ==
    [note_name |-> NoteName(f), vault |-> VaultName(vp),
     word_count |-> Get(ExtractBasicStats(f), "word_count", 0),
     tags |-> TagList(metadata), wikilinks_count |-> WikilinksCount(metadata)]

\* The test with < for <=: a file modified at the watermark is not filtered.
SkippedIfBeforeWatermark(lrt, metadata) ==
    /\ lrt # {}
    /\ \E w \in lrt : \E m \in FromIsoFormat(metadata.modified_at) : m < w

\* Lines 309-318: whether the watermark filters the file out.
SkippedByWatermark(lrt, metadata) ==
    /\ lrt # {}
    /\ \E w \in lrt : \E m \in FromIsoFormat(metadata.modified_at) : m <= w

\* ------------------------------------------------------------ the output file

\* max_file_size of line 382
max_file_size == 50 * 1024 * 1024

\* len(json.dumps(entry) + '\n'), in bytes
EntryBytes(e) == Len(e.line.file_path) + 1

RECURSIVE SumBytes(_)
SumBytes(recs) == IF Len(recs) = 0 THEN 0 ELSE EntryBytes(Head(recs)) + SumBytes(Tail(recs))

\* os.path.getsize(output_file): base bytes were there before the first run.
FileSize(o) == o.base + SumBytes(o.recs)

NoFile == [exists |-> FALSE, base |-> 0, recs |-> <<>>]

\* ---------------------------------------------------------------- the state

VARIABLES
    clock,            \* the system clock, a UTC instant
    tz,               \* local time minus UTC
    vault_path,       \* the vault root the scans are given
    mtime,            \* st_mtime of each file, a UTC instant
    last_run,         \* the file <output-directory>/.last_run
    out,              \* the output file
    rotated,          \* the files output_file.<timestamp>, by timestamp
    metrics_data,     \* the module's metrics_data
    registry,         \* the Prometheus counters and gauges
    pc,               \* where the scan is
    mode,             \* "full": parse_obsidian_vault, "metrics": the metrics-only variant
    todo,             \* the rest of md_files, which the loop has not reached yet
    last_run_time,    \* {} for None
    entries,          \* the records collected by the run
    current_run_time, \* {} until line 362 has run
    exit_code,        \* {} while the process runs
    runs,             \* scans started so far
    opened,           \* files opened for reading so far
    folded,           \* files passed to update_metrics so far
    modified,         \* a file was modified since the latest scan started
    hist,             \* what the current scan found when it started, and did
    um,               \* the update_metrics call in progress, {} when none
    served,           \* the answer to a GET /metrics, {} when none was served
    calls,            \* update_metrics calls started in SpecMetrics
    prev_call,        \* the latest update_metrics call that returned, {} when none
    doc,              \* the content of the one document of SpecExtract
    record            \* what the loop body made of doc, {} before it ran

envVars == <<clock, tz, vault_path, mtime>>
diskVars == <<last_run, out, rotated>>
memVars == <<metrics_data, registry>>
runVars == <<pc, mode, todo, last_run_time, entries, current_run_time, exit_code>>
histVars == <<runs, opened, folded, modified, hist>>
concVars == <<um, served, calls, prev_call>>
docVars == <<doc, record>>
vars == <<envVars, diskVars, memVars, runVars, histVars, concVars, docVars>>

TzOffsets == {-1, 0, 1}

\* The files the user edits while the program is observed; the others keep
\* the st_mtime they start with.
EditedFiles == {"a.md"}

\* The sizes of the unique-document sets.
UniqueDocSizes(md) ==
    [all |-> Cardinality(md.unique_notes),
     vault |-> [v \in DOMAIN md.vault_counts |-> Cardinality(md.vault_counts[v].notes)]]

NoHist ==
    [first_file |-> {}, last_run_before |-> [exists |-> FALSE, text |-> <<>>],
     size_before |-> 0, size_after |-> 0, renames |-> 0, docs_before |-> UniqueDocSizes(InitMetricsData),
     prev_quiet |-> FALSE, appended |-> 0, append_failed |-> FALSE,
     seen |-> {},     \* files a full scan has examined, in this scan or before
     stale |-> {},    \* of these, the files modified since they were examined
     lost |-> {},     \* stale files this scan examined and did not emit
     handled |-> {},  \* files this scan took past the hidden test
     raised |-> {}]   \* files whose processing raised in this scan

\* The document of a behaviour that processes none.
EmptyDoc == [front |-> <<>>, inline |-> <<>>, links |-> <<>>, words |-> 0]

\* The process as the module is loaded, before any scan. The disk is as earlier
\* processes may have left it: .last_run absent, or present and empty (a
\* process died between lines 377 and 378); the output file absent, or so
\* large that the records of one scan of the whole tree (10 bytes) fill it to
\* max_file_size exactly.
InitScan ==
    /\ clock = 0
    /\ tz \in TzOffsets
    /\ vault_path \in VaultRoots
    /\ mtime = [f \in Files |-> 0]
    /\ last_run \in {[exists |-> FALSE, text |-> <<>>], [exists |-> TRUE, text |-> <<>>]}
    /\ out \in {NoFile} \cup
               {[exists |-> TRUE, base |-> b, recs |-> <<>>] :
                    b \in {max_file_size - 10}}
    /\ rotated = <<>>
    /\ metrics_data = InitMetricsData
    /\ registry = InitRegistry
    /\ pc = "idle"
    /\ mode = "full"
    /\ todo = <<>>
    /\ last_run_time = {}
    /\ entries = <<>>
    /\ current_run_time = {}
    /\ exit_code = {}
    /\ runs = 0
    /\ opened = {}
    /\ folded = {}
    /\ modified = FALSE
    /\ hist = NoHist
    /\ um = {}
    /\ served = {}
    /\ calls = 0
    /\ prev_call = {}

Init ==
    /\ InitScan
    /\ doc = EmptyDoc
    /\ record = {}

\* ------------------------------------------------------------- the environment

\* The process has not ended.
Alive == pc \notin {"crashed", "exited"}

\* Time passes.
Tick ==
    /\ Alive
    /\ clock < MaxClock
    /\ clock' = clock + 1
    /\ UNCHANGED <<tz, vault_path, mtime, diskVars, memVars, runVars, histVars, concVars, docVars>>

\* The user saves a file: its st_mtime becomes the current instant.
ModifyFile(f) ==
    /\ Alive
    /\ f \in EditedFiles
    /\ mtime' = [mtime EXCEPT ![f] = clock]
    /\ modified' = TRUE
    /\ hist' = [hist EXCEPT !.stale = IF f \in hist.seen THEN @ \cup {f} ELSE @]
    /\ UNCHANGED <<clock, tz, vault_path, diskVars, memVars, runVars, concVars, docVars,
                   runs, opened, folded>>

\* The process dies in the middle of a scan.
Crash ==
    /\ pc \in {"loop", "mloop", "write", "wm_open", "wm_write", "rotate"}
    /\ pc' = "crashed"
    /\ UNCHANGED <<envVars, diskVars, memVars, histVars, concVars, docVars,
                   mode, todo, last_run_time, entries, current_run_time, exit_code>>

\* -------------------------------------------------------- parse_obsidian_vault

\* Lines 277-288: the watermark read, {} when absent or unparseable.
ReadLastRun(lr) == IF lr.exists THEN FromIsoFormat(lr.text) ELSE {}

\* Lines 269-292: the watermark is read and the files are enumerated.
StartRun ==
    /\ pc \in {"idle", "done"}
    /\ runs < MaxRuns
    /\ runs' = runs + 1
    /\ mode' = "full"
    /\ entries' = <<>>
    /\ last_run_time' = ReadLastRun(last_run)
    /\ todo' = RGlob(vault_path)
    /\ current_run_time' = {}
    /\ pc' = "loop"
    /\ modified' = FALSE
    /\ hist' = [NoHist EXCEPT !.last_run_before = last_run,
                              !.docs_before = UniqueDocSizes(metrics_data),
                              !.prev_quiet = (pc = "done" /\ mode = "full" /\ ~modified),
                              !.seen = hist.seen,
                              !.stale = hist.stale]
    /\ UNCHANGED <<envVars, diskVars, memVars, concVars, docVars, exit_code, opened, folded>>

\* The record of lines 333-337.
Entry(f, vp, metadata, now) ==
    [timestamp |-> now,
     labels |-> CreateLokiLabels(NoteName(f), VaultName(vp), metadata),
     line |-> metadata]

\* Lines 294-359: one iteration of the loop over md_files.
ProcessFile ==
    /\ pc = "loop"
    /\ todo # <<>>
    /\ todo' = Tail(todo)
    /\ LET f == Head(todo)
           metadata == AllMetadata(f, mtime, tz)
           S == UpdateMetrics([md |-> metrics_data, reg |-> registry],
                              MetricsArgs(f, vault_path, metadata))
           h == [hist EXCEPT !.first_file = IF @ = {} THEN {clock} ELSE @]
       IN  IF IsHidden(vault_path, f)
           THEN /\ hist' = h
                /\ UNCHANGED <<entries, memVars, opened, folded>>
           ELSE /\ opened' = opened \cup {f}
                /\ hist' = [h EXCEPT
                      !.handled = @ \cup {f},
                      !.seen = @ \cup {f},
                      !.stale = @ \ {f},
                      !.lost = IF f \in hist.stale
                                  /\ SkippedByWatermark(last_run_time, metadata)
                               THEN @ \cup {f} ELSE @]
                /\ IF SkippedByWatermark(last_run_time, metadata)
                   THEN UNCHANGED <<entries, memVars, folded>>
                   ELSE /\ entries' = Append(entries, Entry(f, vault_path, metadata, clock))
                        /\ metrics_data' = S.md
                        /\ registry' = S.reg
                        /\ folded' = folded \cup {f}
    /\ UNCHANGED <<envVars, diskVars, concVars, docVars, pc, mode, last_run_time,
                   current_run_time, exit_code, runs, modified>>

\* The newest modified_at among the records of the run, the clock when none.
NewestEntryTime(now, es) ==
    IF es = <<>> THEN now
    ELSE LET ms == UNION {FromIsoFormat(es[i].line.modified_at) : i \in 1..Len(es)}
         IN  CHOOSE m \in ms : \A n \in ms : n <= m

\* current_run_time of line 362: datetime.utcnow(), whatever the records are.
CurrentRunTime(now, es) == now

\* Line 362: the instant that will be the next watermark is taken.
CaptureTime ==
    /\ pc = "loop"
    /\ todo = <<>>
    /\ current_run_time' = {CurrentRunTime(clock, entries)}
    /\ pc' = "write"
    /\ UNCHANGED <<envVars, diskVars, memVars, concVars, docVars, histVars,
                   mode, todo, last_run_time, entries, exit_code>>

\* The file opened with 'w' for 'a': what was there is lost.
OverwriteWith(o, es) == [exists |-> TRUE, base |-> 0, recs |-> es]

\* Lines 368-370: open(output_file, 'a') and one write per record.
AppendTo(o, es) == [exists |-> TRUE, base |-> o.base, recs |-> o.recs \o es]

\* Lines 366-374: the records are appended to the output file.
WriteOutput ==
    /\ pc = "write"
    /\ out' = IF entries # <<>> THEN AppendTo(out, entries) ELSE out
    /\ hist' = [hist EXCEPT !.size_before = FileSize(out),
                            !.size_after = FileSize(out'),
                            !.appended = Len(entries)]
    /\ pc' = "wm_open"
    /\ UNCHANGED <<envVars, last_run, rotated, memVars, concVars, docVars,
                   mode, todo, last_run_time, entries, current_run_time, exit_code,
                   runs, opened, folded, modified>>

\* The error logged and not raised again: the run goes on to line 377.
OnAppendErrorSwallowed == "wm_open"

\* Lines 389-391: the error is logged and raised again, out of the run.
OnAppendError == "raised"

\* Lines 368-370 raise: the open fails, or a write fails after k records.
AppendFail ==
    /\ pc = "write"
    /\ entries # <<>>
    /\ \E k \in 0..(Len(entries) - 1) : \E created \in BOOLEAN :
          /\ k > 0 => created
          /\ out' = IF created THEN AppendTo(out, SubSeq(entries, 1, k)) ELSE out
    /\ pc' = OnAppendError
    /\ hist' = [hist EXCEPT !.append_failed = TRUE]
    /\ UNCHANGED <<envVars, last_run, rotated, memVars, concVars, docVars,
                   mode, todo, last_run_time, entries, current_run_time, exit_code,
                   runs, opened, folded, modified>>

\* Line 377: open(last_run_file, 'w') truncates the file.
WatermarkOpen ==
    /\ pc = "wm_open"
    /\ last_run' = [exists |-> TRUE, text |-> <<>>]
    /\ pc' = "wm_write"
    /\ UNCHANGED <<envVars, out, rotated, memVars, concVars, docVars, histVars,
                   mode, todo, last_run_time, entries, current_run_time, exit_code>>

\* Line 378 and the close: the instant of line 362 reaches the file.
WatermarkWrite ==
    /\ pc = "wm_write"
    /\ \E t \in current_run_time : last_run' = [exists |-> TRUE, text |-> IsoFormat(t)]
    /\ pc' = "rotate"
    /\ UNCHANGED <<envVars, out, rotated, memVars, concVars, docVars, histVars,
                   mode, todo, last_run_time, entries, current_run_time, exit_code>>

\* The test with >= for >.
NeedsRotationAtLimit(o) == o.exists /\ FileSize(o) >= max_file_size

\* Line 383: the output file is to be rotated.
NeedsRotation(o) == o.exists /\ FileSize(o) > max_file_size

\* Lines 382-387: the output file is renamed when it is too large.
Rotate ==
    /\ pc = "rotate"
    /\ IF NeedsRotation(out)
       THEN /\ \E t \in current_run_time : rotated' = Put(rotated, StrfTime(t), out)
            /\ out' = NoFile
            /\ hist' = [hist EXCEPT !.renames = @ + 1]
       ELSE UNCHANGED <<out, rotated, hist>>
    /\ pc' = "done"
    /\ UNCHANGED <<envVars, last_run, memVars, concVars, docVars,
                   mode, todo, last_run_time, entries, current_run_time, exit_code,
                   runs, opened, folded, modified>>

\* Lines 443-445 of main: the exception is logged and the process exits with 1.
MainCatch ==
    /\ pc = "raised"
    /\ pc' = "exited"
    /\ exit_code' = {1}
    /\ UNCHANGED <<envVars, diskVars, memVars, concVars, docVars, histVars,
                   mode, todo, last_run_time, entries, current_run_time>>

\* ------------------------------------------- parse_obsidian_vault_metrics_only

\* Lines 208-216: the files are enumerated.
StartRunMetrics ==
    /\ pc \in {"idle", "done"}
    /\ runs < MaxRuns
    /\ runs' = runs + 1
    /\ mode' = "metrics"
    /\ entries' = <<>>
    /\ last_run_time' = {}
    /\ current_run_time' = {}
    /\ todo' = RGlob(vault_path)
    /\ pc' = "mloop"
    /\ modified' = FALSE
    /\ hist' = [NoHist EXCEPT !.last_run_before = last_run,
                              !.docs_before = UniqueDocSizes(metrics_data),
                              !.seen = hist.seen,
                              !.stale = hist.stale]
    /\ UNCHANGED <<envVars, diskVars, memVars, concVars, docVars, exit_code, opened, folded>>

\* Lines 218-259: one iteration of the loop over md_files.
ProcessFileMetrics ==
    /\ pc = "mloop"
    /\ todo # <<>>
    /\ todo' = Tail(todo)
    /\ LET f == Head(todo)
           metadata == AllMetadata(f, mtime, tz)
           S == UpdateMetrics([md |-> metrics_data, reg |-> registry],
                              MetricsArgs(f, vault_path, metadata))
           h == [hist EXCEPT !.first_file = IF @ = {} THEN {clock} ELSE @]
       IN  IF IsHidden(vault_path, f)
           THEN /\ hist' = h
                /\ UNCHANGED <<memVars, opened, folded>>
           ELSE /\ opened' = opened \cup {f}
                /\ hist' = [h EXCEPT !.handled = @ \cup {f}]
                /\ metrics_data' = S.md
                /\ registry' = S.reg
                /\ folded' = folded \cup {f}
    /\ UNCHANGED <<envVars, diskVars, concVars, docVars, pc, mode, last_run_time, entries,
                   current_run_time, exit_code, runs, modified>>

\* The end of the full scan pasted here: the watermark is written.
FinishMetricsWithWatermark ==
    /\ pc = "mloop"
    /\ todo = <<>>
    /\ pc' = "done"
    /\ last_run' = [exists |-> TRUE, text |-> IsoFormat(clock)]
    /\ UNCHANGED <<envVars, out, rotated, memVars, concVars, docVars, histVars,
                   mode, todo, last_run_time, entries, current_run_time, exit_code>>

\* Line 261: the loop is over.
FinishMetrics ==
    /\ pc = "mloop"
    /\ todo = <<>>
    /\ pc' = "done"
    /\ UNCHANGED <<envVars, diskVars, memVars, concVars, docVars, histVars,
                   mode, todo, last_run_time, entries, current_run_time, exit_code>>

Next ==
    \/ Tick
    \/ \E f \in Files : ModifyFile(f)
    \/ Crash
    \/ StartRun
    \/ ProcessFile
    \/ CaptureTime
    \/ WriteOutput
    \/ AppendFail
    \/ WatermarkOpen
    \/ WatermarkWrite
    \/ Rotate
    \/ MainCatch
    \/ StartRunMetrics
    \/ ProcessFileMetrics
    \/ FinishMetrics

Spec == Init /\ [][Next]_vars

\* ------------------------------------------ a failure while a file is processed

RECURSIVE ExecUntilCounters(_, _, _)
\* update_metrics run up to line 90, where the first Prometheus call raises.
ExecUntilCounters(S, a, k) ==
    IF k > Len(Prog(a)) \/ Prog(a)[k].l >= 90 THEN S
    ELSE ExecUntilCounters(Exec(S, a, Prog(a)[k]), a, k + 1)

\* The exception leaving the loop: the run ends as by lines 389-391.
OnFileErrorRaised(at) == "raised"

\* Lines 357-359 (257-259): the error is logged and the loop continues.
OnFileError(at) == at

\* Lines 300-359 raise on the file the loop has reached: before the record is
\* appended (lines 300-337), or inside update_metrics (line 353), when the
\* record is appended and metrics_data is updated but no Prometheus metric is.
ProcessFileRaises ==
    /\ pc = "loop"
    /\ todo # <<>>
    /\ ~IsHidden(vault_path, Head(todo))
    /\ todo' = Tail(todo)
    /\ pc' = OnFileError(pc)
    /\ LET f == Head(todo)
           metadata == AllMetadata(f, mtime, tz)
           S == ExecUntilCounters([md |-> metrics_data, reg |-> registry],
                                  MetricsArgs(f, vault_path, metadata), 1)
       IN  /\ opened' = opened \cup {f}
           /\ hist' = [hist EXCEPT !.first_file = IF @ = {} THEN {clock} ELSE @,
                                   !.handled = @ \cup {f},
                                   !.raised = @ \cup {f}]
           /\ \/ UNCHANGED <<entries, memVars, folded>>
              \/ /\ ~SkippedByWatermark(last_run_time, metadata)
                 /\ entries' = Append(entries, Entry(f, vault_path, metadata, clock))
                 /\ metrics_data' = S.md
                 /\ registry' = S.reg
                 /\ folded' = folded \cup {f}
    /\ UNCHANGED <<envVars, diskVars, concVars, docVars, mode, last_run_time,
                   current_run_time, exit_code, runs, modified>>

\* Lines 224-259 raise on the file the loop has reached: before update_metrics
\* is called, or inside it.
ProcessFileMetricsRaises ==
    /\ pc = "mloop"
    /\ todo # <<>>
    /\ ~IsHidden(vault_path, Head(todo))
    /\ todo' = Tail(todo)
    /\ pc' = OnFileError(pc)
    /\ LET f == Head(todo)
           metadata == AllMetadata(f, mtime, tz)
           S == ExecUntilCounters([md |-> metrics_data, reg |-> registry],
                                  MetricsArgs(f, vault_path, metadata), 1)
       IN  /\ opened' = opened \cup {f}
           /\ hist' = [hist EXCEPT !.first_file = IF @ = {} THEN {clock} ELSE @,
                                   !.handled = @ \cup {f},
                                   !.raised = @ \cup {f}]
           /\ \/ UNCHANGED <<memVars, folded>>
              \/ /\ metrics_data' = S.md
                 /\ registry' = S.reg
                 /\ folded' = folded \cup {f}
    /\ UNCHANGED <<envVars, diskVars, concVars, docVars, mode, last_run_time, entries,
                   current_run_time, exit_code, runs, modified>>

\* The two scans with the failures; the clock stands still and no file is
\* edited meanwhile.
NextFaults ==
    \/ StartRun
    \/ ProcessFile
    \/ ProcessFileRaises
    \/ CaptureTime
    \/ WriteOutput
    \/ AppendFail
    \/ WatermarkOpen
    \/ WatermarkWrite
    \/ Rotate
    \/ MainCatch
    \/ StartRunMetrics
    \/ ProcessFileMetrics
    \/ ProcessFileMetricsRaises
    \/ FinishMetrics

\* The process as the module is loaded, on a disk no earlier process has
\* written to, local time equal to UTC.
InitFaults ==
    /\ Init
    /\ tz = 0
    /\ vault_path = << <<"v">> >>
    /\ ~last_run.exists
    /\ out = NoFile

SpecFaults == InitFaults /\ [][NextFaults]_vars

\* ------------------------------------- update_metrics beside the metrics server

\* The arguments the calls of SpecMetrics are made with.
CallArgs ==
    [note_name : {<<"a">>, <<"b">>}, vault : {<<"v">>, <<"w">>},
     word_count : {0, 2}, tags : {<<>>, << <<"x">>, <<"y">> >>},
     wikilinks_count : {1}]

\* Line 73: the scan thread enters update_metrics.
UMCall(a) ==
    /\ um = {}
    /\ calls < MaxCalls
    /\ calls' = calls + 1
    /\ um' = {[a |-> a, k |-> 1, before |-> registry,
              after |-> UpdateMetrics([md |-> metrics_data, reg |-> registry], a).reg,
              md0 |-> metrics_data]}
    /\ UNCHANGED <<envVars, diskVars, memVars, runVars, histVars, docVars, served,
                   prev_call>>

\* The scan thread runs the next statement of update_metrics.
UMStep ==
    \E c \in um :
        /\ c.k <= Len(Prog(c.a))
        /\ LET S == Exec([md |-> metrics_data, reg |-> registry], c.a, Prog(c.a)[c.k])
           IN  /\ metrics_data' = S.md
               /\ registry' = S.reg
        /\ um' = {[c EXCEPT !.k = @ + 1]}
        /\ UNCHANGED <<envVars, diskVars, runVars, histVars, docVars, served, calls,
                       prev_call>>

\* Line 99 is done: update_metrics returns.
UMReturn ==
    \E c \in um :
        /\ c.k > Len(Prog(c.a))
        /\ um' = {}
        /\ prev_call' = {[a |-> c.a, before |-> c.md0, after |-> metrics_data,
                          prev |-> {[a |-> p.a, before |-> p.before, after |-> p.after] :
                                       p \in prev_call}]}
        /\ UNCHANGED <<envVars, diskVars, memVars, runVars, histVars, docVars, served, calls>>

\* Lines 45-50: the server thread answers GET /metrics with generate_latest(),
\* read here in one step (the registry is in fact read metric by metric, which
\* only adds interleavings). The answer is kept with the registry as the call
\* in progress found it and as it leaves it. One answer per behaviour, taken at
\* any moment.
Snapshot ==
    /\ served = {}
    /\ served' = {[body |-> registry,
                   before |-> IF um = {} THEN registry ELSE (CHOOSE c \in um : TRUE).before,
                   after |-> IF um = {} THEN registry ELSE (CHOOSE c \in um : TRUE).after]}
    /\ UNCHANGED <<envVars, diskVars, memVars, runVars, histVars, docVars, um, calls,
                   prev_call>>

NextMetrics ==
    \/ \E a \in CallArgs : UMCall(a)
    \/ UMStep
    \/ UMReturn
    \/ Snapshot

\* The process as the module is loaded, no scan started: the disk and the zone
\* play no part in update_metrics.
InitMetrics ==
    /\ Init
    /\ tz = 0
    /\ vault_path = << <<"v">> >>
    /\ ~last_run.exists
    /\ out = NoFile

SpecMetrics == InitMetrics /\ [][NextMetrics]_vars

\* ------------------------------------------------ the loop body on one document

\* The document of the example: front matter {tags: [a, b], priority: 3}, a
\* body with #urgent and [[Other Note]].
ExampleDoc ==
    [front |-> << [key |-> "tags", list |-> TRUE, items |-> << <<"a">>, <<"b">> >>],
                  [key |-> "priority", list |-> FALSE, items |-> << <<"3">> >>] >>,
     inline |-> << <<"u", "r", "g", "e", "n", "t">> >>,
     links |-> << <<"O", "t", "h", "e", "r", " ", "N", "o", "t", "e">> >>,
     words |-> 2]

\* Front matters: none, the example's, one list tag, tags given as a scalar.
FrontChoices ==
    { <<>>,
      ExampleDoc.front,
      << [key |-> "tags", list |-> TRUE, items |-> << <<"x">> >>] >>,
      << [key |-> "tags", list |-> FALSE, items |-> << <<"a">> >>] >> }

\* Matches of #(\w+): none, the example's, two of which one is also in front.
InlineChoices == { <<>>, ExampleDoc.inline, << <<"y">>, <<"x">> >> }

\* Matches of \[\[([^\]]+)\]\]: none, the example's, one link twice, a link
\* text with a comma, a link text of one space, a plain link and one with a
\* comma.
LinkChoices ==
    { <<>>,
      ExampleDoc.links,
      << <<"L">>, <<"L">> >>,
      << <<"A", ",", "B">> >>,
      << <<" ">> >>,
      << <<"L">>, <<"A", ",", "B">> >> }

\* The documents the loop body is applied to.
Docs == [front : FrontChoices, inline : InlineChoices, links : LinkChoices, words : {2}]

\* file_path.stem of the document.
DocName == <<"n">>

\* Lines 320-353 on a readable document with a usable name: the metadata are
\* gathered, the record is built and the counters are updated.
ProcessDocument ==
    /\ record = {}
    /\ LET metadata == Merge(Merge([word_count |-> doc.words], FrontmatterFields(doc)),
                             [note_name |-> DocName])
           a == [note_name |-> DocName, vault |-> VaultName(vault_path),
                 word_count |-> doc.words, tags |-> TagList(metadata),
                 wikilinks_count |-> WikilinksCount(metadata)]
           S == UpdateMetrics([md |-> metrics_data, reg |-> registry], a)
       IN  /\ record' = {[labels |-> CreateLokiLabels(DocName, VaultName(vault_path),
                                                      metadata),
                          line |-> metadata, args |-> a]}
           /\ metrics_data' = S.md
           /\ registry' = S.reg
    /\ UNCHANGED <<envVars, diskVars, runVars, histVars, concVars, doc>>

NextExtract == ProcessDocument

\* The process as the module is loaded, about to process one document.
InitExtract ==
    /\ InitScan
    /\ tz = 0
    /\ vault_path = << <<"v">> >>
    /\ ~last_run.exists
    /\ out = NoFile
    /\ doc \in Docs
    /\ record = {}

SpecExtract == InitExtract /\ [][NextExtract]_vars

\* ------------------------------------------------------------------ claims

\* The records of file f among the records es.
RecordsOf(f, es) == {i \in 1..Len(es) : es[i].line.file_path = RelativePath(f)}

\* Every record the program has written or is about to write.
AllRecords ==
    {entries, out.recs} \cup {rotated[n].recs : n \in DOMAIN rotated}

\* The watermark the file .last_run holds, {} when it holds none.
Watermark(lr) == IF lr.exists THEN FromIsoFormat(lr.text) ELSE {}

\* A run of parse_obsidian_vault has come to its end.
FullRunDone == pc = "done" /\ mode = "full"

\* C1: when a run of parse_obsidian_vault follows a completed one and no file was
\* modified since that one started, it appends no record and leaves the sizes
\* of the unique-document sets as it found them, whatever the zone offset.
C1_IdempotentRescan ==
    (FullRunDone /\ hist.prev_quiet /\ ~modified)
        => /\ entries = <<>>
           /\ hist.appended = 0
           /\ UniqueDocSizes(metrics_data) = hist.docs_before

\* C2: the watermark a run writes is an instant taken before the run's first
\* file was processed: it is not later than the instant of that first iteration.
C2_WatermarkIsStartOfPass ==
    FullRunDone =>
        \A w \in Watermark(last_run) : \A s \in hist.first_file : w <= s

\* C3: a file that cannot be read gets no record and no update_metrics call.
C3_UnreadableSkipped ==
    \A f \in Files :
        ~Readable(f) =>
            /\ f \notin folded
            /\ \A es \in AllRecords : RecordsOf(f, es) = {}

\* C4: every answer to GET /metrics shows the registry as it was before or
\* after a whole update_metrics call, never with part of a call applied.
C4_SnapshotNotTorn ==
    \A s \in served : s.body = s.before \/ s.body = s.after

\* C5: after a crash the file .last_run holds what it held when the run
\* started or the complete new watermark of the run.
C5_WatermarkNeverPartial ==
    pc = "crashed" =>
        \/ last_run = hist.last_run_before
        \/ \E t \in current_run_time : last_run = [exists |-> TRUE, text |-> IsoFormat(t)]

\* C6: the watermark a completed run leaves is not earlier than the one it found.
C6_WatermarkMonotonic ==
    FullRunDone =>
        /\ Watermark(last_run) # {}
        /\ \A old \in Watermark(hist.last_run_before) :
               \A new \in Watermark(last_run) : new >= old

\* A second completed run has moved the watermark forward.
C6_Witness ==
    /\ FullRunDone
    /\ \E old \in Watermark(hist.last_run_before) :
           \E new \in Watermark(last_run) : new > old

\* The running totals and set sizes of md are at most those of nd.
CountersAtMost(md, nd) ==
    /\ md.total_words <= nd.total_words
    /\ Cardinality(md.unique_notes) <= Cardinality(nd.unique_notes)
    /\ Cardinality(md.unique_tags) <= Cardinality(nd.unique_tags)
    /\ \A v \in DOMAIN md.vault_counts :
           /\ v \in DOMAIN nd.vault_counts
           /\ md.vault_counts[v].words <= nd.vault_counts[v].words
           /\ md.vault_counts[v].wikilinks <= nd.vault_counts[v].wikilinks
           /\ Cardinality(md.vault_counts[v].notes) <= Cardinality(nd.vault_counts[v].notes)
           /\ Cardinality(md.vault_counts[v].tags) <= Cardinality(nd.vault_counts[v].tags)

\* C7: no step of any sequence of update_metrics calls lowers a word total, a
\* wikilink total or the size of a unique-note or unique-tag set.
C7_CountersNeverDecrease ==
    [][CountersAtMost(metrics_data, metrics_data')]_vars

\* Two calls have returned and a vault has counted words twice.
C7_Witness ==
    /\ calls = 2
    /\ um = {}
    /\ \E v \in DOMAIN metrics_data.vault_counts :
           /\ metrics_data.vault_counts[v].words = 4
           /\ metrics_data.vault_counts[v].wikilinks = 2
           /\ Cardinality(metrics_data.vault_counts[v].notes) = 2

\* The file lies under a hidden component of the vault.
UnderHidden(f) == \E i \in 1..Len(RelParts(f)) : StartsWithDot(RelParts(f)[i])

\* C8: a file with a component starting with '.' below the vault root is never
\* opened, never passed to update_metrics and never written as a record, in
\* either scan variant.
C8_HiddenNeverTouched ==
    \A f \in Files :
        UnderHidden(f) =>
            /\ f \notin opened
            /\ f \notin folded
            /\ \A es \in AllRecords : RecordsOf(f, es) = {}

\* Both variants have run over the tree, hidden file included, and the full
\* run has written records.
C8_Witness ==
    /\ pc = "done"
    /\ mode = "metrics"
    /\ runs = 2
    /\ out.recs # <<>>
    /\ "a.md" \in folded
    /\ \E f \in Files : UnderHidden(f)

\* C9: a completed run whose append takes the output file from at most 50 MiB
\* to more than 50 MiB renames it once, to the name with the run's timestamp,
\* and has written the new watermark; a run that leaves it at or below 50 MiB
\* renames nothing.
C9_RotationBoundary ==
    FullRunDone =>
        /\ (hist.size_before <= max_file_size /\ hist.size_after > max_file_size)
              => /\ hist.renames = 1
                 /\ ~out.exists
                 /\ \E t \in current_run_time :
                        /\ StrfTime(t) \in DOMAIN rotated
                        /\ FileSize(rotated[StrfTime(t)]) = hist.size_after
                        /\ last_run = [exists |-> TRUE, text |-> IsoFormat(t)]
        /\ hist.size_after <= max_file_size
              => /\ hist.renames = 0
                 /\ hist.size_after > 0 => (out.exists /\ FileSize(out) = hist.size_after)

\* A run has taken an existing file over the limit and rotated it.
C9_Witness ==
    /\ FullRunDone
    /\ hist.renames = 1
    /\ hist.size_before > 0
    /\ hist.size_before <= max_file_size
    /\ hist.size_after > max_file_size

\* C10: when the append fails the error leaves the run, the process exits with
\* a non-zero status, and .last_run holds what it held before the run.
C10_AppendFailureKeepsWatermark ==
    hist.append_failed =>
        /\ pc \in {"raised", "exited"}
        /\ last_run = hist.last_run_before
        /\ pc = "exited" => exit_code = {1}

\* The append of a later run failed and the earlier watermark is still there.
C10_Witness ==
    /\ hist.append_failed
    /\ pc = "exited"
    /\ exit_code = {1}
    /\ entries # <<>>
    /\ Watermark(last_run) # {}

\* Sequence p is a prefix of sequence q.
IsPrefix(p, q) == Len(p) <= Len(q) /\ SubSeq(q, 1, Len(p)) = p

\* C11: no step alters or removes a record of the output file: while the file
\* stays, what it held is a prefix of what it holds; when it goes, it is whole
\* under a rotated name; and a rotated file is never touched again.
C11_AppendOnly ==
    [][/\ (out.exists /\ out'.exists)
              => (out'.base = out.base /\ IsPrefix(out.recs, out'.recs))
       /\ (out.exists /\ ~out'.exists)
              => \E n \in DOMAIN rotated' : rotated'[n] = out
       /\ \A n \in DOMAIN rotated :
              n \in DOMAIN rotated' /\ rotated'[n] = rotated[n]]_vars

\* A second run has appended its records after those of the first.
C11_Witness ==
    /\ FullRunDone
    /\ hist.appended > 0
    /\ out.exists
    /\ Len(out.recs) > hist.appended

\* C12: a metrics-only run leaves the output file, the rotated files and
\* .last_run as they were and collects no record, and when it ends every
\* document that passed the hidden test has been folded into the counters.
C12_MetricsOnlyFrame ==
    [][(mode' = "metrics")
          => /\ out' = out
             /\ rotated' = rotated
             /\ last_run' = last_run
             /\ entries' = <<>>
             /\ (pc = "mloop" /\ pc' = "done")
                   => \A f \in Files :
                         ~IsHidden(vault_path, f)
                            => /\ f \in folded'
                               /\ NoteName(f) \in metrics_data'.unique_notes]_vars

\* A metrics-only run has ended with documents counted, after a full run had
\* left records and a watermark behind.
C12_Witness ==
    /\ pc = "done"
    /\ mode = "metrics"
    /\ runs = 2
    /\ metrics_data.unique_notes # {}
    /\ out.exists /\ out.recs # <<>>
    /\ last_run.exists

\* The set of the items of a sequence.
Range(q) == {q[i] : i \in 1..Len(q)}

\* The items of a comma-joined field of a record, none when the field is absent.
FieldItems(line, k) == IF k \in DOMAIN line THEN Range(Split(line[k], ",")) ELSE {}

C14_NoModificationLost == FullRunDone => hist.lost = {}

Candidates == {f \in Range(RGlob(vault_path)) : ~IsHidden(vault_path, f)}

\* C16: an exception raised while a file is processed does not end the scan, in
\* either variant: the run is not left by it, while the loop runs every
\* candidate file has been handled or is still to come, and when the loop is
\* over every candidate has been handled and every one that did not raise has
\* been read; only a failure of the write phase itself ends the run.
C16_FileErrorDoesNotEndScan ==
    /\ (hist.raised # {} /\ ~hist.append_failed) => pc \notin {"raised", "exited"}
    /\ pc \in {"loop", "mloop"} => Candidates \subseteq hist.handled \cup Range(todo)
    /\ pc \in {"write", "wm_open", "wm_write", "rotate", "done"}
          => /\ Candidates \subseteq hist.handled
             /\ Candidates \ hist.raised \subseteq opened

\* The first file raised, the next one was processed and has its record, and
\* the run went through its write phase to the end.
C16_Witness ==
    /\ FullRunDone
    /\ hist.raised = {"a.md"}
    /\ RecordsOf("bad.md", entries) # {}
    /\ out.exists /\ Len(out.recs) >= hist.appended /\ hist.appended > 0
    /\ Watermark(last_run) # {}

\* The unique-note and unique-tag sets of md: process-wide and of each vault.
UniqueSets(md) ==
    [notes |-> md.unique_notes, tags |-> md.unique_tags,
     vault |-> [v \in DOMAIN md.vault_counts |->
                  [notes |-> md.vault_counts[v].notes, tags |-> md.vault_counts[v].tags]]]

\* C17: when update_metrics has returned from a call made with the arguments
\* of the call before it, every unique-note and unique-tag set is as that call
\* left it, and the vault's word total and wikilink total have grown by what
\* they grew by in that call.
C17_SecondCallSameArgs ==
    \A c \in prev_call : \A p \in c.prev :
        p.a = c.a
           => /\ UniqueSets(c.after) = UniqueSets(p.after)
              /\ VaultCounts(c.after, c.a.vault).words - VaultCounts(p.after, c.a.vault).words
                    = VaultCounts(p.after, c.a.vault).words
                         - VaultCounts(p.before, c.a.vault).words
              /\ VaultCounts(c.after, c.a.vault).wikilinks
                       - VaultCounts(p.after, c.a.vault).wikilinks
                    = VaultCounts(p.after, c.a.vault).wikilinks
                         - VaultCounts(p.before, c.a.vault).wikilinks

\* Two calls with the same arguments, words and tags among them, have returned.
C17_Witness ==
    \E c \in prev_call : \E p \in c.prev :
        /\ p.a = c.a
        /\ c.a.word_count > 0
        /\ c.a.tags # <<>>
        /\ VaultCounts(c.after, c.a.vault).wikilinks = 2 * c.a.wikilinks_count

\* C18: the vault's wikilink total after the first document is the number of
\* double-bracket matches in its body.
C18_LinkTotalIsMatchCount ==
    \A r \in record :
        VaultCounts(metrics_data, VaultName(vault_path)).wikilinks = Len(doc.links)

\* C19: when the loop of a scan is over, every enumerated file whose path
\* below the vault root has no component starting with '.' has been processed.
C19_RootRelativeHiddenTest ==
    pc \in {"write", "wm_open", "wm_write", "rotate", "done"}
       => \A f \in Range(RGlob(vault_path)) : ~UnderHidden(f) => f \in hist.handled

RECURSIVE SumVaultWords(_, _)
\* The sum of the word totals of the vaults vs.
SumVaultWords(md, vs) ==
    IF vs = {} THEN 0
    ELSE LET v == CHOOSE x \in vs : TRUE
         IN  md.vault_counts[v].words + SumVaultWords(md, vs \ {v})

\* C20: when no update_metrics call is in progress, the process-wide sets are
\* the unions of the vaults' sets, the process-wide word total is the sum of
\* the vaults' word totals, and the four gauges of every vault updated so far,
\* the one just updated among them, show that vault's note count, word total,
\* tag count and wikilink total.
C20_AggregatesAgree ==
    um = {}
       => /\ metrics_data.unique_notes
                = UNION {metrics_data.vault_counts[v].notes :
                            v \in DOMAIN metrics_data.vault_counts}
          /\ metrics_data.unique_tags
                = UNION {metrics_data.vault_counts[v].tags :
                            v \in DOMAIN metrics_data.vault_counts}
          /\ metrics_data.total_words
                = SumVaultWords(metrics_data, DOMAIN metrics_data.vault_counts)
          /\ \A c \in prev_call : c.a.vault \in DOMAIN metrics_data.vault_counts
          /\ \A v \in DOMAIN metrics_data.vault_counts :
                LET vc == metrics_data.vault_counts[v]
                IN  /\ DOMAIN registry.notes_gauge = DOMAIN metrics_data.vault_counts
                    /\ registry.notes_gauge[v] = Cardinality(vc.notes)
                    /\ DOMAIN registry.words_gauge = DOMAIN metrics_data.vault_counts
                    /\ registry.words_gauge[v] = vc.words
                    /\ DOMAIN registry.tags_gauge = DOMAIN metrics_data.vault_counts
                    /\ registry.tags_gauge[v] = Cardinality(vc.tags)
                    /\ DOMAIN registry.wikilinks_gauge = DOMAIN metrics_data.vault_counts
                    /\ registry.wikilinks_gauge[v] = vc.wikilinks

\* Two calls on two vaults have returned, with words, tags and links counted.
C20_Witness ==
    /\ um = {}
    /\ Cardinality(DOMAIN metrics_data.vault_counts) = 2
    /\ metrics_data.total_words > 0
    /\ metrics_data.unique_tags # {}
    /\ \E c \in prev_call : registry.wikilinks_gauge[c.a.vault] > 0

====
